---- MODULE Spec2Model ----
(***************************************************************************)
(* A model of the FileUpload backend: the SSE streaming relay              *)
(* (SSEstream.py: bedrock_stream_generator), its HTTP surface              *)
(* (endpoint.py) and the buffered facade (datavisual.py).                  *)
(*                                                                         *)
(* Python strings are sequences of one-character strings, byte strings are *)
(* sequences of integers 0..255.  The asyncio event loop is the variable   *)
(* `loop`: it names the relay that is executing synchronous code (a        *)
(* blocking boto3 call included), or "idle" when every relay is suspended  *)
(* at a yield and a request handler may run.                               *)
(***************************************************************************)
EXTENDS Integers, Sequences, FiniteSets, TLC

\* ------------------------------------------------------------------ bounds

\* Remote events pulled by all streaming relays together.
MaxPulls == 2

\* ----------------------------------------------------------------- strings

UpperAlpha ==
  <<"A", "B", "C", "D", "E", "F", "G", "H", "I", "J", "K", "L", "M",
    "N", "O", "P", "Q", "R", "S", "T", "U", "V", "W", "X", "Y", "Z">>

LowerAlpha ==
  <<"a", "b", "c", "d", "e", "f", "g", "h", "i", "j", "k", "l", "m",
    "n", "o", "p", "q", "r", "s", "t", "u", "v", "w", "x", "y", "z">>

Digits ==
  <<"0", "1", "2", "3", "4", "5", "6", "7", "8", "9">>

\* str.lower() on one character
LowerChar(c) ==
  IF \E i \in 1..26 : UpperAlpha[i] = c
  THEN LowerAlpha[CHOOSE i \in 1..26 : UpperAlpha[i] = c]
  ELSE c

\* str.lower()
Lower(str) ==
  [i \in 1..Len(str) |-> LowerChar(str[i])]

\* `sub in str`
Contains(str, sub) ==
  \E i \in 0..(Len(str) - Len(sub)) :
    \A j \in 1..Len(sub) : str[i + j] = sub[j]

\* str.endswith(suffix)
EndsWith(str, suffix) ==
  /\ Len(suffix) <= Len(str)
  /\ \A j \in 1..Len(suffix) : str[Len(str) - Len(suffix) + j] = suffix[j]

\* str.split('.')[-1]: what follows the last dot, the whole string without one
LastDotSegment(str) ==
  LET dots == {i \in 1..Len(str) : str[i] = "."}
      last == IF dots = {} THEN 0 ELSE CHOOSE i \in dots : \A j \in dots : j <= i
  IN  SubSeq(str, last + 1, Len(str))

\* IntToStr that gives one digit whatever the number
IntToStr_Zero(n) ==
  <<"0">>

\* str(n) for a natural number
RECURSIVE IntToStr(_)
IntToStr(n) ==
  IF n < 10 THEN <<Digits[n + 1]>>
  ELSE Append(IntToStr(n \div 10), Digits[(n % 10) + 1])

\* ------------------------------------------------------------- conversions

\* One UTF-8 code unit below 128 as its character.  The text bytes of the model
\* are letters, digits and the space (ASCII), or 255, which no UTF-8 sequence
\* contains.
Chr(b) ==
  IF b \in 65..90 THEN UpperAlpha[b - 64]
  ELSE IF b \in 97..122 THEN LowerAlpha[b - 96]
  ELSE IF b \in 48..57 THEN Digits[b - 47]
  ELSE " "

\* bytes.decode('utf-8') succeeds
Utf8Valid(bytes) ==
  \A i \in 1..Len(bytes) : bytes[i] < 128

\* bytes.decode('utf-8'), for bytes with Utf8Valid
Utf8Decode(bytes) ==
  [i \in 1..Len(bytes) |-> Chr(bytes[i])]

B64Alphabet ==
  <<"A", "B", "C", "D", "E", "F", "G", "H", "I", "J", "K", "L", "M",
    "N", "O", "P", "Q", "R", "S", "T", "U", "V", "W", "X", "Y", "Z",
    "a", "b", "c", "d", "e", "f", "g", "h", "i", "j", "k", "l", "m",
    "n", "o", "p", "q", "r", "s", "t", "u", "v", "w", "x", "y", "z",
    "0", "1", "2", "3", "4", "5", "6", "7", "8", "9", "+", "/">>

\* base64.b64encode(bytes).decode('utf-8')
RECURSIVE B64Encode(_)
B64Encode(b) ==
  IF Len(b) = 0 THEN <<>>
  ELSE IF Len(b) = 1 THEN
    <<B64Alphabet[(b[1] \div 4) + 1],
      B64Alphabet[((b[1] % 4) * 16) + 1], "=", "=">>
  ELSE IF Len(b) = 2 THEN
    <<B64Alphabet[(b[1] \div 4) + 1],
      B64Alphabet[((b[1] % 4) * 16) + (b[2] \div 16) + 1],
      B64Alphabet[((b[2] % 16) * 4) + 1], "=">>
  ELSE
    <<B64Alphabet[(b[1] \div 4) + 1],
      B64Alphabet[((b[1] % 4) * 16) + (b[2] \div 16) + 1],
      B64Alphabet[((b[2] % 16) * 4) + (b[3] \div 64) + 1],
      B64Alphabet[(b[3] % 64) + 1]>> \o B64Encode(SubSeq(b, 4, Len(b)))

\* SSEstream.py get_file_type
get_file_type(filename) ==
  LET ext == LastDotSegment(Lower(filename))
  IN  CASE ext = <<"p", "n", "g">> -> "image/png"
        [] ext = <<"j", "p", "g">> -> "image/jpeg"
        [] ext = <<"j", "p", "e", "g">> -> "image/jpeg"
        [] ext = <<"s", "v", "g">> -> "image/svg+xml"
        [] ext = <<"h", "t", "m", "l">> -> "text/html"
        [] ext = <<"c", "s", "v">> -> "text/csv"
        [] ext = <<"j", "s", "o", "n">> -> "application/json"
        [] ext = <<"p", "d", "f">> -> "application/pdf"
        [] OTHER -> "application/octet-stream"

StreamVizKeywords ==
  { <<"c", "h", "a", "r", "t">>, <<"g", "r", "a", "p", "h">>,
    <<"v", "i", "s", "u", "a", "l", "i", "z", "e">>,
    <<"a", "n", "a", "l", "y", "z", "e">> }

StreamDataSuffixes ==
  { <<".", "c", "s", "v">>, <<".", "x", "l", "s", "x">>, <<".", "x", "l", "s">> }

\* The use-case tags
CHAT == <<"C", "H", "A", "T">>

CODE_INTERPRETER ==
  <<"C", "O", "D", "E", "_", "I", "N", "T", "E", "R", "P", "R", "E", "T", "E", "R">>

\* SSEstream.py determine_use_case: one label
stream_determine_use_case(file_name, file_type, prompt) ==
  IF \E keyword \in StreamVizKeywords : Contains(Lower(prompt), keyword)
  THEN CODE_INTERPRETER
  ELSE IF \E suffix \in StreamDataSuffixes : EndsWith(Lower(file_name), suffix)
  THEN CODE_INTERPRETER
  ELSE CHAT

\* ------------------------------------------------- datavisual.py, functions

\* str.upper() on one character
UpperChar(c) ==
  IF \E i \in 1..26 : LowerAlpha[i] = c
  THEN UpperAlpha[CHOOSE i \in 1..26 : LowerAlpha[i] = c]
  ELSE c

\* str.upper()
Upper(str) ==
  [i \in 1..Len(str) |-> UpperChar(str[i])]

\* The last index of character c in str, 0 without one (str.rfind(c) + 1)
LastIndexOf(str, c) ==
  LET at == {i \in 1..Len(str) : str[i] = c}
  IN  IF at = {} THEN 0 ELSE CHOOSE i \in at : \A j \in at : j <= i

\* os.path.splitext(p)[1] (posixpath): from the last dot of the last path
\* component on, unless only dots precede it there
SplitExt(p) ==
  LET sepIndex == LastIndexOf(p, "/")
      dotIndex == LastIndexOf(p, ".")
  IN  IF dotIndex > sepIndex
         /\ \E i \in (sepIndex + 1)..(dotIndex - 1) : p[i] # "."
      THEN SubSeq(p, dotIndex, Len(p))
      ELSE <<>>

SUPPORTED_DATA_FILES ==
  { <<".", "c", "s", "v">>, <<".", "x", "l", "s", "x">>, <<".", "x", "l", "s">>,
    <<".", "j", "s", "o", "n">>, <<".", "y", "a", "m", "l">>, <<".", "y", "m", "l">> }

SUPPORTED_DOCUMENT_FILES ==
  { <<".", "t", "x", "t">>, <<".", "p", "d", "f">>, <<".", "d", "o", "c">>,
    <<".", "d", "o", "c", "x">>, <<".", "h", "t", "m", "l">>, <<".", "m", "d">> }

\* SUPPORTED_DATA_FILES[file_ext]
DataFileType(file_ext) ==
  CASE file_ext = <<".", "c", "s", "v">> -> "text/csv"
    [] file_ext = <<".", "x", "l", "s", "x">> ->
         "application/vnd.openxmlformats-officedocument.spreadsheetml.sheet"
    [] file_ext = <<".", "x", "l", "s">> -> "application/vnd.ms-excel"
    [] file_ext = <<".", "j", "s", "o", "n">> -> "application/json"
    [] OTHER -> "application/x-yaml"

\* SUPPORTED_DOCUMENT_FILES[file_ext]
DocumentFileType(file_ext) ==
  CASE file_ext = <<".", "t", "x", "t">> -> "text/plain"
    [] file_ext = <<".", "p", "d", "f">> -> "application/pdf"
    [] file_ext = <<".", "d", "o", "c">> -> "application/msword"
    [] file_ext = <<".", "d", "o", "c", "x">> ->
         "application/vnd.openxmlformats-officedocument.wordprocessingml.document"
    [] file_ext = <<".", "h", "t", "m", "l">> -> "text/html"
    [] OTHER -> "text/markdown"

\* mimetypes.guess_type(filename)[0], for the extensions get_mime_type passes on
\* to it; "" is None
guess_type(filename) ==
  LET file_ext == SplitExt(Lower(filename))
  IN  CASE file_ext = <<".", "p", "n", "g">> -> "image/png"
        [] file_ext = <<".", "j", "p", "g">> -> "image/jpeg"
        [] file_ext = <<".", "s", "v", "g">> -> "image/svg+xml"
        [] OTHER -> ""

\* datavisual.py get_mime_type; provided_type "" is the default None or ""
get_mime_type(filename, provided_type) ==
  LET file_ext == SplitExt(Lower(filename))
  IN  IF provided_type # "" THEN provided_type
      ELSE IF file_ext \in SUPPORTED_DATA_FILES THEN DataFileType(file_ext)
      ELSE IF file_ext \in SUPPORTED_DOCUMENT_FILES THEN DocumentFileType(file_ext)
      ELSE IF guess_type(filename) # "" THEN guess_type(filename)
      ELSE "application/octet-stream"

viz_keywords ==
  { <<"c", "h", "a", "r", "t">>, <<"g", "r", "a", "p", "h">>, <<"p", "l", "o", "t">>,
    <<"v", "i", "s", "u", "a", "l", "i", "z", "e">>,
    <<"a", "n", "a", "l", "y", "z", "e">>,
    <<"d", "a", "s", "h", "b", "o", "a", "r", "d">>, <<"t", "r", "e", "n", "d">>,
    <<"c", "o", "r", "r", "e", "l", "a", "t", "i", "o", "n">>,
    <<"s", "t", "a", "t", "i", "s", "t", "i", "c", "s">>,
    <<"m", "e", "t", "r", "i", "c", "s">>,
    <<"d", "i", "s", "t", "r", "i", "b", "u", "t", "i", "o", "n">> }

text_keywords ==
  { <<"s", "u", "m", "m", "a", "r", "i", "z", "e">>,
    <<"e", "x", "p", "l", "a", "i", "n">>, <<"e", "x", "t", "r", "a", "c", "t">>,
    <<"f", "i", "n", "d">>, <<"s", "e", "a", "r", "c", "h">>, <<"r", "e", "a", "d">> }

\* determine_use_case without the upgrade of a document to both labels
determine_use_case_NoUpgrade(file_name, file_type, prompt) ==
  LET file_ext == IF file_name # <<>> THEN SplitExt(Lower(file_name)) ELSE <<>>
      prompt_lower == Lower(prompt)
      wants_viz == \E keyword \in viz_keywords : Contains(prompt_lower, keyword)
      wants_text == \E keyword \in text_keywords : Contains(prompt_lower, keyword)
  IN  IF file_ext \in SUPPORTED_DATA_FILES THEN
        IF wants_text /\ ~wants_viz THEN <<CHAT>> ELSE <<CODE_INTERPRETER>>
      ELSE <<CHAT>>

\* determine_use_case without the override of a data file by a text keyword
determine_use_case_NoOverride(file_name, file_type, prompt) ==
  LET file_ext == IF file_name # <<>> THEN SplitExt(Lower(file_name)) ELSE <<>>
      prompt_lower == Lower(prompt)
      wants_viz == \E keyword \in viz_keywords : Contains(prompt_lower, keyword)
  IN  IF file_ext \in SUPPORTED_DATA_FILES THEN <<CODE_INTERPRETER>>
      ELSE IF file_ext \in SUPPORTED_DOCUMENT_FILES THEN
        IF wants_viz THEN <<CHAT, CODE_INTERPRETER>> ELSE <<CHAT>>
      ELSE <<CHAT>>

\* datavisual.py determine_use_case: a list of labels
determine_use_case(file_name, file_type, prompt) ==
  LET file_ext == IF file_name # <<>> THEN SplitExt(Lower(file_name)) ELSE <<>>
      prompt_lower == Lower(prompt)
      wants_viz == \E keyword \in viz_keywords : Contains(prompt_lower, keyword)
      wants_text == \E keyword \in text_keywords : Contains(prompt_lower, keyword)
  IN  IF file_ext \in SUPPORTED_DATA_FILES THEN
        IF wants_text /\ ~wants_viz THEN <<CHAT>>
        ELSE IF wants_viz \/ ~wants_text THEN <<CODE_INTERPRETER>>
        ELSE <<CHAT, CODE_INTERPRETER>>
      ELSE IF file_ext \in SUPPORTED_DOCUMENT_FILES THEN
        IF wants_viz THEN <<CHAT, CODE_INTERPRETER>> ELSE <<CHAT>>
      ELSE <<CHAT>>

\* The ceiling of validate_file_size, in megabytes
MaxFileSizeMb == 10

BytesPerMb == 1024 * 1024

\* datavisual.py validate_file_size: is_valid.  len / (1024 * 1024) is exact in
\* floating point (a division by a power of two), so the comparison is the
\* integers'.
validate_file_size(file_data) ==
  ~(file_data.len > MaxFileSizeMb * BytesPerMb)

\* datavisual.py create_visualization_prompt, by the template chosen and what
\* is substituted into it; chart_types are appended for a data file
create_visualization_prompt(user_prompt, analysis_type, chart_types, file_name) ==
  LET file_ext == IF file_name # <<>> THEN SplitExt(Lower(file_name)) ELSE <<>>
      is_data_file == file_ext \in SUPPORTED_DATA_FILES
      template == IF analysis_type = "basic" /\ is_data_file THEN "basic"
                  ELSE IF analysis_type = "comprehensive" /\ is_data_file
                  THEN "comprehensive"
                  ELSE IF analysis_type = "custom" THEN "custom"
                  ELSE "general"
  IN  [template |-> template, file_name |-> file_name, user_prompt |-> user_prompt,
       chart_types |-> IF chart_types # <<>> /\ is_data_file THEN chart_types ELSE <<>>]

\* ------------------------------------------------------------------ inputs

\* Session ids: analyze_file_stream draws a fresh one per request; the path
\* parameter of POST /stop-stream/{session_id} is any of them.
Sessions == {"session_1", "session_2"}

\* A base64 request payload, by what b64decode makes of it: whether it decodes
\* and the number of bytes it decodes to.
Payload(wellformed, size) ==
  [wellformed |-> wellformed, size |-> size]

\* base64.b64decode(payload), for a payload that decodes: bytes, by their length
b64decode(payload) ==
  [len |-> payload.size]

\* FileAnalysisRequest
FileAnalysisRequest(file_data, file_name, file_type, prompt) ==
  [file_data |-> file_data, file_name |-> file_name,
   file_type |-> file_type, prompt |-> prompt]

\* The requests the streaming relay is explored with.
StreamRequests ==
  { FileAnalysisRequest(Payload(TRUE, 3), <<"d", "a", "t", "a", ".", "c", "s", "v">>,
                        "text/csv", <<"r", "e", "a", "d", " ", "i", "t">>) }

\* FileVisualizationRequest; session_id "" is an absent one, chart_types <<>>
\* an absent or empty list
FileVisualizationRequest(prompt, file_name, file_content, file_type, session_id, analysis_type, use_case, chart_types) ==
  [prompt |-> prompt, file_name |-> file_name, file_content |-> file_content,
   file_type |-> file_type, session_id |-> session_id,
   analysis_type |-> analysis_type, use_case |-> use_case,
   chart_types |-> chart_types]

\* The multipart form of POST /visualize/upload: the file's bytes (by their
\* length), its name and content type ("" when absent), and the form fields
UploadForm(file_len, filename, content_type, prompt, analysis_type, session_id) ==
  [file_len |-> file_len, filename |-> filename, content_type |-> content_type,
   prompt |-> prompt, analysis_type |-> analysis_type, session_id |-> session_id]

\* The ids of the buffered requests: one POST /visualize, one POST
\* /visualize/upload
VisualizeIds == {"visualize_1"}

UploadIds == {"upload_1"}

BufferedIds == VisualizeIds \cup UploadIds

RequestIds == Sessions \cup BufferedIds

\* Payload sizes around the ceiling
PayloadSizes ==
  {3, MaxFileSizeMb * BytesPerMb, (MaxFileSizeMb * BytesPerMb) + 1}

\* Base64 payloads: one that does not decode, and one of each size
Payloads ==
  {Payload(FALSE, 0)} \cup {Payload(TRUE, n) : n \in PayloadSizes}

\* The requests the request paths are explored with
FacadeStreamRequests ==
  { FileAnalysisRequest(payload, <<"d", "a", "t", "a", ".", "c", "s", "v">>,
                        "text/csv", <<"r", "e", "a", "d", " ", "i", "t">>) :
      payload \in Payloads }

FacadeVisualizeRequests ==
  { FileVisualizationRequest(<<"r", "e", "a", "d", " ", "i", "t">>,
                             <<"d", "a", "t", "a", ".", "c", "s", "v">>, payload,
                             "text/csv", "", "comprehensive",
                             <<"a", "u", "t", "o">>, <<>>) :
      payload \in Payloads }

FacadeUploadForms ==
  { UploadForm(n, <<"d", "a", "t", "a", ".", "c", "s", "v">>, "text/csv",
               <<"r", "e", "a", "d", " ", "i", "t">>, "comprehensive", "") :
      n \in PayloadSizes }

\* One entry of chunk['files']: the keys 'name' and 'data' are optional, and
\* dataIsBytes is false for a 'data' value that b64encode refuses.
FileInfo(hasName, name, hasData, dataIsBytes, data) ==
  [hasName |-> hasName, name |-> name, hasData |-> hasData,
   dataIsBytes |-> dataIsBytes, data |-> data]

\* One event of response['completion']: the keys 'chunk', chunk['bytes'],
\* chunk['files'], 'trace' and trace['trace'] are optional; markers are the
\* marker words str(trace['trace']) contains.
NoEvent ==
  [hasChunk |-> FALSE, hasBytes |-> FALSE, bytes |-> <<>>, hasFiles |-> FALSE,
   files |-> <<>>, hasTrace |-> FALSE, hasInner |-> FALSE, markers |-> {}]

EvText ==
  [NoEvent EXCEPT !.hasChunk = TRUE, !.hasBytes = TRUE, !.bytes = <<72, 105>>]

EvFiles ==
  [NoEvent EXCEPT !.hasChunk = TRUE, !.hasBytes = TRUE, !.bytes = <<111, 107>>,
     !.hasFiles = TRUE,
     !.files = << FileInfo(TRUE, <<"a", ".", "c", "s", "v">>, TRUE, TRUE, <<1, 2, 3>>),
                  FileInfo(TRUE, <<"x", ".", "p", "n", "g">>, FALSE, TRUE, <<>>),
                  FileInfo(FALSE, <<>>, TRUE, TRUE, <<255>>) >>,
     !.hasTrace = TRUE, !.hasInner = TRUE,
     !.markers = {"codeInterpreterInvocationInput", "codeInterpreterInvocationOutput"}]

EvBadUtf8 ==
  [NoEvent EXCEPT !.hasChunk = TRUE, !.hasBytes = TRUE, !.bytes = <<255>>,
     !.hasFiles = TRUE,
     !.files = << FileInfo(FALSE, <<>>, TRUE, TRUE, <<7>>) >>]

EvBadFile ==
  [NoEvent EXCEPT !.hasChunk = TRUE, !.hasFiles = TRUE,
     !.files = << FileInfo(FALSE, <<>>, TRUE, TRUE, <<9, 9>>),
                  FileInfo(FALSE, <<>>, TRUE, FALSE, <<>>) >>]

EvOtherTrace ==
  [NoEvent EXCEPT !.hasTrace = TRUE, !.hasInner = TRUE, !.markers = {}]

\* Trace events with one marker each, and one without trace['trace']
EvTraceInput ==
  [EvOtherTrace EXCEPT !.markers = {"codeInterpreterInvocationInput"}]

EvTraceOutput ==
  [EvOtherTrace EXCEPT !.markers = {"codeInterpreterInvocationOutput"}]

EvTraceOuter ==
  [NoEvent EXCEPT !.hasTrace = TRUE]

\* A later event that carries the file a.csv again, with other bytes
EvRewrite ==
  [NoEvent EXCEPT !.hasChunk = TRUE, !.hasFiles = TRUE,
     !.files = << FileInfo(TRUE, <<"a", ".", "c", "s", "v">>, TRUE, TRUE, <<4, 5, 6, 7>>) >>]

\* The events the remote agent answers with.
RemoteEvents == {EvText, EvFiles, EvBadUtf8, EvBadFile, EvOtherTrace}

\* ------------------------------------------------------------------- state

VARIABLES
  active_streams,   \* SSEstream.py/endpoint.py: dict session_id -> bool
  loop,             \* the handler running on the event loop, or "idle"
  relay,            \* per session: the generator's frame, its output, its history
  http,             \* per request: the HTTP status and detail answered
  remote_calls,     \* per request: the invoke_agent calls issued
  viz,              \* per buffered request: visualize_data and its drain thread
  temp_files,       \* the directory temp_files: name -> content
  files_api,        \* the last answer of GET or DELETE /files/{filename}
  uuid_draws        \* uuid4() values drawn for file names

vars ==
  <<active_streams, loop, relay, http, remote_calls, viz, temp_files, files_api,
    uuid_draws>>

\* What the streaming relay and its endpoints never touch
bufferedVars == <<viz, temp_files, files_api, uuid_draws>>

\* What the buffered facade and the files endpoints never touch
streamVars == <<active_streams, relay>>

\* Put that clears the values of the other keys
Put_ClearsOthers(dict, key, value) ==
  [k \in DOMAIN dict \cup {key} |-> IF k = key THEN value ELSE FALSE]

\* dict[key] = value
Put(dict, key, value) ==
  [k \in DOMAIN dict \cup {key} |-> IF k = key THEN value ELSE dict[k]]

\* dict.pop(key, None)
Pop(dict, key) ==
  [k \in DOMAIN dict \ {key} |-> dict[k]]

\* dict.get(key, default)
Get(dict, key, default) ==
  IF key \in DOMAIN dict THEN dict[key] ELSE default

\* An HTTP answer: the status line and, for an HTTPException, its detail
HttpResponse(status, detail) ==
  [status |-> status, detail |-> detail]

NoResponse == HttpResponse(0, "")

NoRequest ==
  FileAnalysisRequest(b64decode(Payload(TRUE, 0)), <<>>, "", <<>>)

\* A generator that does not exist yet.  pc: none, rejected, new, y_start,
\* invoking, pulling, y_event, y_complete, y_error, done.  The fields from
\* pulled on are history: the events pulled, the event each frame came from
\* (0: none), the number of events pulled when the first stop request for the
\* id was serviced and the number of frames when the liveness check failed
\* (-1: never), the events that passed the liveness check, the executions of
\* the finally clause, whether the consumer closed the generator, and the
\* description of the exception caught ("": none); payload is the base64
\* payload of the request the generator was made for.
NoRelay ==
  [pc |-> "none", payload |-> Payload(TRUE, 0), request |-> NoRequest, event |-> NoEvent, pos |-> 0,
   file_counter |-> 0, text_buffer |-> <<>>, frames |-> <<>>,
   pulled |-> <<>>, src |-> <<>>, stopAt |-> -1, abortedAt |-> -1,
   checked |-> 0, pops |-> 0, closed |-> FALSE, raised |-> ""]

YieldPcs == {"y_start", "y_event", "y_complete", "y_error"}

RECURSIVE SumPulled(_)
SumPulled(S) ==
  IF S = {} THEN 0
  ELSE LET s == CHOOSE x \in S : TRUE
       IN  Len(relay[s].pulled) + SumPulled(S \ {s})

TotalPulls == SumPulled(Sessions)

\* ------------------------------------------------------------ the SSE relay

\* StatusFrame that carries one message whatever the progress
StatusFrame_OneMessage(session_id, message) ==
  [event |-> "status",
   data |-> [message |-> "Generating charts...", session_id |-> session_id]]

StatusFrame(session_id, message) ==
  [event |-> "status", data |-> [message |-> message, session_id |-> session_id]]

\* TextFrame that carries the first character of the delta only
TextFrame_FirstChar(session_id, chunk_text) ==
  [event |-> "text",
   data |-> [content |-> SubSeq(chunk_text, 1, 1), session_id |-> session_id]]

TextFrame(session_id, chunk_text) ==
  [event |-> "text", data |-> [content |-> chunk_text, session_id |-> session_id]]

\* ChartFrame with the size taken of the encoded text
ChartFrame_EncodedSize(session_id, filename, file_data_bytes) ==
  [event |-> "chart",
   data |-> [filename |-> filename, data |-> B64Encode(file_data_bytes),
             type |-> get_file_type(filename),
             size |-> Len(B64Encode(file_data_bytes)),
             session_id |-> session_id]]

ChartFrame(session_id, filename, file_data_bytes) ==
  [event |-> "chart",
   data |-> [filename |-> filename, data |-> B64Encode(file_data_bytes),
             type |-> get_file_type(filename), size |-> Len(file_data_bytes),
             session_id |-> session_id]]

\* CompleteFrame that reports the file counter as the text length
CompleteFrame_CounterAsLength(session_id, file_counter, text_buffer) ==
  [event |-> "complete",
   data |-> [session_id |-> session_id, total_files |-> file_counter,
             total_text_length |-> file_counter,
             message |->
               <<"A", "n", "a", "l", "y", "s", "i", "s", " ", "c", "o", "m", "p",
                 "l", "e", "t", "e", "!", " ", "G", "e", "n", "e", "r", "a", "t",
                 "e", "d", " ">> \o IntToStr(file_counter)
               \o <<" ", "f", "i", "l", "e", "s", ".">>]]

CompleteFrame(session_id, file_counter, text_buffer) ==
  [event |-> "complete",
   data |-> [session_id |-> session_id, total_files |-> file_counter,
             total_text_length |-> Len(text_buffer),
             message |->
               <<"A", "n", "a", "l", "y", "s", "i", "s", " ", "c", "o", "m", "p",
                 "l", "e", "t", "e", "!", " ", "G", "e", "n", "e", "r", "a", "t",
                 "e", "d", " ">> \o IntToStr(file_counter)
               \o <<" ", "f", "i", "l", "e", "s", ".">>]]

ErrorFrame(session_id, description) ==
  [event |-> "error", data |-> [error |-> description, session_id |-> session_id]]

\* Yield sending its frame twice
Yield_Twice(r, frame, source, pc) ==
  [r EXCEPT !.frames = Append(Append(@, frame), frame),
            !.src = Append(Append(@, source), source), !.pc = pc]

\* `yield frame`: the frame goes out and the generator is suspended at pc
Yield(r, frame, source, pc) ==
  [r EXCEPT !.frames = Append(@, frame), !.src = Append(@, source), !.pc = pc]

\* ExceptHandler that ends the generator without an error frame
ExceptHandler_NoFrame(session_id, r, description) ==
  [r EXCEPT !.raised = description, !.pc = "y_error"]

\* except Exception as e: yield the error frame
ExceptHandler(session_id, r, description) ==
  Yield([r EXCEPT !.raised = description], ErrorFrame(session_id, description),
        0, "y_error")

\* The places of one loop iteration that may yield: the text of the chunk (1),
\* each entry of chunk['files'] (2..n+1), the two trace markers (n+2, n+3).
NFiles(event) ==
  IF event.hasChunk /\ event.hasFiles THEN Len(event.files) ELSE 0

\* The body of `for event in ...` from place r.pos on, up to its next yield, the
\* exception it raises, or the pull of the next event.
RECURSIVE RunEvent(_, _)
RunEvent(session_id, r) ==
  LET event == r.event
      n == NFiles(event)
      k == Len(r.pulled)
      next == [r EXCEPT !.pos = @ + 1]
  IN  IF r.pos = 1 THEN
        IF event.hasChunk /\ event.hasBytes THEN
          IF Utf8Valid(event.bytes) THEN
            LET chunk_text == Utf8Decode(event.bytes)
            IN  Yield([next EXCEPT !.text_buffer = @ \o chunk_text],
                      TextFrame(session_id, chunk_text), k, "y_event")
          ELSE ExceptHandler(session_id, r, "UnicodeDecodeError")
        ELSE RunEvent(session_id, next)
      ELSE IF r.pos <= n + 1 THEN
        LET file_info == event.files[r.pos - 1]
            file_counter == r.file_counter + 1
            filename == IF file_info.hasName THEN file_info.name
                        ELSE <<"c", "h", "a", "r", "t", "_">> \o IntToStr(file_counter)
                             \o <<".", "p", "n", "g">>
        IN  IF file_info.hasData THEN
              IF file_info.dataIsBytes THEN
                Yield([next EXCEPT !.file_counter = file_counter],
                      ChartFrame(session_id, filename, file_info.data), k, "y_event")
              ELSE ExceptHandler(session_id, [r EXCEPT !.file_counter = file_counter],
                                 "TypeError")
            ELSE RunEvent(session_id, next)
      ELSE IF r.pos = n + 2 THEN
        IF event.hasTrace /\ event.hasInner
           /\ "codeInterpreterInvocationInput" \in event.markers
        THEN Yield(next, StatusFrame(session_id, "Generating charts..."), k, "y_event")
        ELSE RunEvent(session_id, next)
      ELSE IF r.pos = n + 3 THEN
        IF event.hasTrace /\ event.hasInner
           /\ "codeInterpreterInvocationOutput" \in event.markers
        THEN Yield(next, StatusFrame(session_id, "Code execution completed"), k, "y_event")
        ELSE RunEvent(session_id, next)
      ELSE [r EXCEPT !.pc = "pulling"]

\* SendCompletion that ends the generator without a completion frame
SendCompletion_Silent(session_id, r) ==
  [r EXCEPT !.pc = "y_complete"]

\* After the loop: "Send completion event"
SendCompletion(session_id, r) ==
  Yield(r, CompleteFrame(session_id, r.file_counter, r.text_buffer), 0, "y_complete")

\* The head of the loop body, with the event just pulled: the liveness check
\* and its break, else the body.
CheckActive(session_id, r, streams) ==
  IF ~Get(streams, session_id, FALSE)
  THEN SendCompletion(session_id, [r EXCEPT !.abortedAt = Len(r.frames)])
  ELSE RunEvent(session_id, [r EXCEPT !.checked = @ + 1, !.pos = 1])

\* Finally that leaves the registry as it is
Finally_SkipsPop(session_id, r) ==
  /\ active_streams' = active_streams
  /\ relay' = [relay EXCEPT ![session_id] = [r EXCEPT !.pc = "done", !.pops = @ + 1]]
  /\ loop' = "idle"

\* finally: active_streams.pop(session_id, None), and the generator is over
Finally(session_id, r) ==
  /\ active_streams' = Pop(active_streams, session_id)
  /\ relay' = [relay EXCEPT ![session_id] = [r EXCEPT !.pc = "done", !.pops = @ + 1]]
  /\ loop' = "idle"

\* LoopAfter that never gives the event loop back
LoopAfter_HoldsLoop(session_id, r) ==
  session_id

\* What the event loop runs next, given where the generator stopped.
LoopAfter(session_id, r) ==
  IF r.pc \in YieldPcs THEN "idle" ELSE session_id

\* ----------------------------------------------------------------- actions

\* endpoint.py analyze_file_stream.  The HTTPException(400) of the inner handler
\* is an Exception, so the outer handler catches it and raises the 500.
analyze_file_stream(session_id, request) ==
  /\ loop = "idle"
  /\ relay[session_id].pc = "none"
  /\ IF ~request.file_data.wellformed
     THEN /\ http' = [http EXCEPT ![session_id] =
                          HttpResponse(500, "Invalid base64 file data")]
          /\ relay' = [relay EXCEPT ![session_id].pc = "rejected",
                                    ![session_id].payload = request.file_data]
     ELSE /\ http' = [http EXCEPT ![session_id] = HttpResponse(200, "")]
          /\ relay' = [relay EXCEPT
                         ![session_id].pc = "new",
                         ![session_id].payload = request.file_data,
                         ![session_id].request =
                           FileAnalysisRequest(b64decode(request.file_data),
                                               request.file_name, request.file_type,
                                               request.prompt)]
  /\ UNCHANGED <<active_streams, loop, remote_calls, bufferedVars>>

\* relay_start that does not register the session
relay_start_Unregistered(session_id) ==
  /\ loop = "idle"
  /\ relay[session_id].pc = "new"
  /\ relay' = [relay EXCEPT ![session_id] =
                 Yield(@, StatusFrame(session_id, "Starting analysis..."), 0, "y_start")]
  /\ UNCHANGED <<active_streams, loop, http, remote_calls, bufferedVars>>

\* bedrock_stream_generator, lines 11-16: the first step of the generator
relay_start(session_id) ==
  /\ loop = "idle"
  /\ relay[session_id].pc = "new"
  /\ active_streams' = Put(active_streams, session_id, TRUE)
  /\ relay' = [relay EXCEPT ![session_id] =
                 Yield(@, StatusFrame(session_id, "Starting analysis..."), 0, "y_start")]
  /\ UNCHANGED <<loop, http, remote_calls, bufferedVars>>

\* The kwargs of the relay's invoke_agent call, lines 22-46
StreamKwargs(session_id, request) ==
  [sessionId |-> session_id, inputText |-> request.prompt,
   files |-> << [name |-> request.file_name, data |-> request.file_data,
                 mediaType |-> request.file_type,
                 useCase |-> stream_determine_use_case(request.file_name,
                                                       request.file_type,
                                                       request.prompt)] >>]

\* The consumer asks for the next frame: the generator runs on from its yield,
\* to the invoke_agent call (after the start frame), through the loop body
\* (inside an event), or through the finally clause (after a terminal frame).
relay_resume(session_id) ==
  LET r == relay[session_id]
  IN  /\ loop = "idle"
      /\ r.pc \in YieldPcs
      /\ IF r.pc = "y_start"
         THEN /\ relay' = [relay EXCEPT ![session_id].pc = "invoking"]
              /\ remote_calls' = [remote_calls EXCEPT ![session_id] =
                                    Append(@, StreamKwargs(session_id, r.request))]
              /\ loop' = session_id
              /\ UNCHANGED active_streams
         ELSE IF r.pc = "y_event"
         THEN LET after == RunEvent(session_id, r)
              IN  /\ relay' = [relay EXCEPT ![session_id] = after]
                  /\ loop' = LoopAfter(session_id, after)
                  /\ UNCHANGED <<active_streams, remote_calls>>
         ELSE /\ Finally(session_id, r)
              /\ UNCHANGED remote_calls
      /\ UNCHANGED <<http, bufferedVars>>

\* client.invoke_agent(**kwargs) returns the response handle; lines 51-55: the
\* locals are set and the loop asks for the first event
invoke_agent_returns(session_id) ==
  /\ loop = session_id
  /\ relay[session_id].pc = "invoking"
  /\ relay' = [relay EXCEPT ![session_id].pc = "pulling",
                            ![session_id].file_counter = 0,
                            ![session_id].text_buffer = <<>>]
  /\ UNCHANGED <<active_streams, loop, http, remote_calls, bufferedVars>>

\* client.invoke_agent(**kwargs) raises
invoke_agent_raises(session_id) ==
  /\ loop = session_id
  /\ relay[session_id].pc = "invoking"
  /\ relay' = [relay EXCEPT ![session_id] = ExceptHandler(session_id, @, "ClientError")]
  /\ loop' = "idle"
  /\ UNCHANGED <<active_streams, http, remote_calls, bufferedVars>>

\* The event stream delivers the next event, lines 55-58 and the body
completion_next(session_id, event) ==
  /\ loop = session_id
  /\ relay[session_id].pc = "pulling"
  /\ TotalPulls < MaxPulls
  /\ LET pulled == [relay[session_id] EXCEPT !.pulled = Append(@, event),
                                             !.event = event]
         after == CheckActive(session_id, pulled, active_streams)
     IN  /\ relay' = [relay EXCEPT ![session_id] = after]
         /\ loop' = LoopAfter(session_id, after)
  /\ UNCHANGED <<active_streams, http, remote_calls, bufferedVars>>

\* The event stream ends: the loop is left, lines 109-116
completion_exhausted(session_id) ==
  /\ loop = session_id
  /\ relay[session_id].pc = "pulling"
  /\ relay' = [relay EXCEPT ![session_id] = SendCompletion(session_id, @)]
  /\ loop' = "idle"
  /\ UNCHANGED <<active_streams, http, remote_calls, bufferedVars>>

\* The event stream raises while the loop waits for the next event
completion_raises(session_id) ==
  /\ loop = session_id
  /\ relay[session_id].pc = "pulling"
  /\ relay' = [relay EXCEPT ![session_id] =
                 ExceptHandler(session_id, @, "EventStreamError")]
  /\ loop' = "idle"
  /\ UNCHANGED <<active_streams, http, remote_calls, bufferedVars>>

\* The client goes away and the generator is closed at its yield: GeneratorExit
\* is no Exception, only the finally clause runs
client_disconnect(session_id) ==
  /\ loop = "idle"
  /\ relay[session_id].pc \in YieldPcs
  /\ Finally(session_id, [relay[session_id] EXCEPT !.closed = TRUE])
  /\ UNCHANGED <<http, remote_calls, bufferedVars>>

\* endpoint.py stop_stream
stop_stream(session_id) ==
  /\ loop = "idle"
  /\ active_streams' = Put(active_streams, session_id, FALSE)
  /\ relay' = [relay EXCEPT ![session_id].stopAt =
                 IF @ = -1 THEN Len(relay[session_id].pulled) ELSE @]
  /\ UNCHANGED <<loop, http, remote_calls, bufferedVars>>

\* ------------------------------------------------------ the buffered facade

\* Events drained by each buffered request.
MaxDrain == 2

NoVizRequest ==
  FileVisualizationRequest(<<>>, <<>>, Payload(TRUE, 0), "", "", "", <<>>, <<>>)

\* VisualizationResponse.  The error description stands for the two texts made
\* of it (response_text, analysis_summary['error']); prompt_length and the
\* times are left out.
VisualizationResponse(session_id, response_text, generated_files, use_cases, charts_generated, error, success) ==
  [session_id |-> session_id, response_text |-> response_text,
   generated_files |-> generated_files, use_cases |-> use_cases,
   charts_generated |-> charts_generated, error |-> error, success |-> success]

NoVizResponse == VisualizationResponse("", <<>>, <<>>, <<>>, 0, "", FALSE)

\* A visualize_data call that does not exist yet.  pc: none, invoking, pulling,
\* writing, drained, failed, done; error is the description of the exception
\* the call or its drain thread raised; drained is history, the events the
\* drain thread has got.
NoViz ==
  [pc |-> "none", via_upload |-> FALSE, request |-> NoVizRequest,
   file_data |-> b64decode(Payload(TRUE, 0)), session_id |-> "",
   use_cases |-> <<>>, event |-> NoEvent, pos |-> 0, filename |-> <<>>,
   completion_text |-> <<>>, generated_files |-> <<>>, pulled |-> 0,
   drained |-> <<>>, error |-> "", response |-> NoVizResponse]

\* visualize_data, lines 369-377
UseCasesOf(request) ==
  IF request.use_case = <<"a", "u", "t", "o">>
  THEN determine_use_case(request.file_name, request.file_type, request.prompt)
  ELSE IF request.use_case = <<"b", "o", "t", "h">>
  THEN <<CHAT, CODE_INTERPRETER>>
  ELSE <<Upper(request.use_case)>>

\* VisualizeKwargs that sends the descriptor of the first label only
VisualizeKwargs_FirstLabel(session_id, request, file_data, use_cases) ==
  [sessionId |-> session_id,
   inputText |-> create_visualization_prompt(request.prompt, request.analysis_type,
                                             request.chart_types, request.file_name),
   files |-> << [name |-> request.file_name, data |-> file_data,
                 mediaType |-> request.file_type, useCase |-> use_cases[1]] >>]

\* visualize_data, lines 392-420: the kwargs of invoke_agent
VisualizeKwargs(session_id, request, file_data, use_cases) ==
  [sessionId |-> session_id,
   inputText |-> create_visualization_prompt(request.prompt, request.analysis_type,
                                             request.chart_types, request.file_name),
   files |-> [i \in 1..Len(use_cases) |->
                [name |-> request.file_name, data |-> file_data,
                 mediaType |-> request.file_type, useCase |-> use_cases[i]]]]

\* The status a client of this call sees for an HTTPException(400) raised in
\* visualize_data: visualize_upload_fallback catches it as an Exception and
\* raises the 500.
RejectStatus(via_upload) ==
  IF via_upload THEN 500 ELSE 400

\* visualize_data, lines 350-425: from the decoding to the invoke_agent call
VisualizeBegin(id, request, via_upload) ==
  LET file_data == b64decode(request.file_content)
      session_id == IF request.session_id # "" THEN request.session_id ELSE id
      use_cases == UseCasesOf(request)
      called == [viz[id] EXCEPT !.via_upload = via_upload, !.request = request]
  IN  IF ~request.file_content.wellformed
      THEN /\ http' = [http EXCEPT ![id] =
                         HttpResponse(RejectStatus(via_upload),
                                      "Invalid base64 file content")]
           /\ viz' = [viz EXCEPT ![id] = [called EXCEPT !.pc = "done"]]
           /\ UNCHANGED <<loop, remote_calls>>
      ELSE IF ~validate_file_size(file_data)
      THEN /\ http' = [http EXCEPT ![id] =
                         HttpResponse(RejectStatus(via_upload), "File too large")]
           /\ viz' = [viz EXCEPT ![id] = [called EXCEPT !.pc = "done"]]
           /\ UNCHANGED <<loop, remote_calls>>
      ELSE /\ viz' = [viz EXCEPT ![id] =
                        [called EXCEPT !.pc = "invoking", !.file_data = file_data,
                                       !.session_id = session_id,
                                       !.use_cases = use_cases]]
           /\ remote_calls' = [remote_calls EXCEPT ![id] =
                                 Append(@, VisualizeKwargs(session_id, request,
                                                           file_data, use_cases))]
           /\ loop' = id
           /\ UNCHANGED http

\* POST /visualize
visualize_data(id, request) ==
  /\ loop = "idle"
  /\ viz[id].pc = "none"
  /\ VisualizeBegin(id, request, FALSE)
  /\ UNCHANGED <<streamVars, temp_files, files_api, uuid_draws>>

\* POST /visualize/upload: the file is read and encoded, and visualize_data is
\* called with the request made of the form
visualize_upload_fallback(id, form) ==
  /\ loop = "idle"
  /\ viz[id].pc = "none"
  /\ VisualizeBegin(id,
       FileVisualizationRequest(
         form.prompt, form.filename, Payload(TRUE, form.file_len),
         IF form.content_type # "" THEN form.content_type
         ELSE "application/octet-stream",
         IF form.session_id # "" THEN form.session_id ELSE id,
         form.analysis_type, <<"a", "u", "t", "o">>, <<>>),
       TRUE)
  /\ UNCHANGED <<streamVars, temp_files, files_api, uuid_draws>>

\* bedrock_client.invoke_agent returns; process_bedrock_response hands the
\* drain to a worker thread and the handler awaits it
visualize_invoke_returns(id) ==
  /\ loop = id
  /\ viz[id].pc = "invoking"
  /\ viz' = [viz EXCEPT ![id].pc = "pulling"]
  /\ loop' = "idle"
  /\ UNCHANGED <<streamVars, http, remote_calls, temp_files, files_api, uuid_draws>>

\* bedrock_client.invoke_agent raises
visualize_invoke_raises(id) ==
  /\ loop = id
  /\ viz[id].pc = "invoking"
  /\ viz' = [viz EXCEPT ![id].pc = "failed", ![id].error = "ClientError"]
  /\ loop' = "idle"
  /\ UNCHANGED <<streamVars, http, remote_calls, temp_files, files_api, uuid_draws>>

\* 'image' or 'file', line 296
GeneratedKind(filename) ==
  IF \E suffix \in { <<".", "p", "n", "g">>, <<".", "j", "p", "g">>,
                     <<".", "j", "p", "e", "g">>, <<".", "s", "v", "g">> } :
       EndsWith(Lower(filename), suffix)
  THEN "image" ELSE "file"

\* process_stream from entry v.pos of chunk['files'] on: entries without data
\* are passed over; for the next one with data the name is chosen and the file
\* is opened for writing, which creates or truncates it
RECURSIVE DrainFiles(_, _, _)
DrainFiles(v, store, draws) ==
  IF v.pos > NFiles(v.event)
  THEN [v |-> [v EXCEPT !.pc = "pulling"], store |-> store, draws |-> draws]
  ELSE LET file_info == v.event.files[v.pos]
           filename == IF file_info.hasName THEN file_info.name
                       ELSE <<"g", "e", "n", "e", "r", "a", "t", "e", "d", "_">>
                            \o IntToStr(draws + 1) \o <<".", "p", "n", "g">>
       IN  IF file_info.hasData
           THEN [v |-> [v EXCEPT !.pc = "writing", !.filename = filename],
                 store |-> Put(store, filename, <<>>),
                 draws |-> IF file_info.hasName THEN draws ELSE draws + 1]
           ELSE DrainFiles([v EXCEPT !.pos = @ + 1], store, draws)

\* The drain thread gets the next event: the text is decoded and added, then
\* the files are gone through
drain_next(id, event) ==
  /\ viz[id].pc = "pulling"
  /\ viz[id].pulled < MaxDrain
  /\ LET v == [viz[id] EXCEPT !.event = event, !.pulled = @ + 1, !.pos = 1,
                              !.drained = Append(@, event)]
     IN  IF event.hasChunk /\ event.hasBytes /\ ~Utf8Valid(event.bytes)
         THEN /\ viz' = [viz EXCEPT ![id] =
                           [v EXCEPT !.pc = "failed", !.error = "UnicodeDecodeError"]]
              /\ UNCHANGED <<temp_files, uuid_draws>>
         ELSE LET text == IF event.hasChunk /\ event.hasBytes
                          THEN Utf8Decode(event.bytes) ELSE <<>>
                  after == DrainFiles([v EXCEPT !.completion_text = @ \o text],
                                      temp_files, uuid_draws)
              IN  /\ viz' = [viz EXCEPT ![id] = after.v]
                  /\ temp_files' = after.store
                  /\ uuid_draws' = after.draws
  /\ UNCHANGED <<streamVars, loop, http, remote_calls, files_api>>

\* The drain thread writes the data and closes the file, lines 289-297, and goes
\* on to the next entry
drain_write(id) ==
  /\ viz[id].pc = "writing"
  /\ LET v == viz[id]
         file_info == v.event.files[v.pos]
     IN  IF ~file_info.dataIsBytes
         THEN /\ viz' = [viz EXCEPT ![id].pc = "failed", ![id].error = "TypeError"]
              /\ UNCHANGED <<temp_files, uuid_draws>>
         ELSE LET written == Put(temp_files, v.filename, file_info.data)
                  entry == [name |-> v.filename,
                            path |-> <<"temp_files">> \o v.filename,
                            size |-> Len(file_info.data),
                            type |-> GeneratedKind(v.filename)]
                  after == DrainFiles([v EXCEPT !.generated_files = Append(@, entry),
                                                !.pos = @ + 1],
                                      written, uuid_draws)
              IN  /\ viz' = [viz EXCEPT ![id] = after.v]
                  /\ temp_files' = after.store
                  /\ uuid_draws' = after.draws
  /\ UNCHANGED <<streamVars, loop, http, remote_calls, files_api>>

\* The event stream ends and the drain thread returns
drain_exhausted(id) ==
  /\ viz[id].pc = "pulling"
  /\ viz' = [viz EXCEPT ![id].pc = "drained"]
  /\ UNCHANGED <<streamVars, loop, http, remote_calls, temp_files, files_api,
                 uuid_draws>>

\* The event stream raises in the drain thread
drain_raises(id) ==
  /\ viz[id].pc = "pulling"
  /\ viz' = [viz EXCEPT ![id].pc = "failed", ![id].error = "EventStreamError"]
  /\ UNCHANGED <<streamVars, loop, http, remote_calls, temp_files, files_api,
                 uuid_draws>>

\* visualize_data, lines 430-459: the answer made of the drained result
SuccessResponse(v) ==
  VisualizationResponse(
    v.session_id, v.completion_text,
    [i \in 1..Len(v.generated_files) |->
       [name |-> v.generated_files[i].name,
        download_url |-> <<"/", "f", "i", "l", "e", "s", "/">>
                         \o v.generated_files[i].name,
        file_type |-> v.generated_files[i].type,
        size_bytes |-> v.generated_files[i].size]],
    v.use_cases,
    Cardinality({i \in 1..Len(v.generated_files) :
                   v.generated_files[i].type = "image"}),
    "", TRUE)

\* FailureResponse that reports the failed request as a success
FailureResponse_Success(v) ==
  VisualizationResponse(
    IF v.request.session_id # "" THEN v.request.session_id ELSE "error",
    <<>>, <<>>, <<>>, 0, v.error, TRUE)

\* visualize_data, lines 463-474: the answer made of an exception
FailureResponse(v) ==
  VisualizationResponse(
    IF v.request.session_id # "" THEN v.request.session_id ELSE "error",
    <<>>, <<>>, <<>>, 0, v.error, FALSE)

\* The handler goes on after the awaited drain, or in its except clause, and
\* returns its answer, which is sent with status 200
visualize_respond(id) ==
  /\ loop = "idle"
  /\ viz[id].pc \in {"drained", "failed"}
  /\ viz' = [viz EXCEPT ![id].pc = "done",
                        ![id].response = IF viz[id].pc = "drained"
                                         THEN SuccessResponse(viz[id])
                                         ELSE FailureResponse(viz[id])]
  /\ http' = [http EXCEPT ![id] = HttpResponse(200, "")]
  /\ UNCHANGED <<streamVars, loop, remote_calls, temp_files, files_api, uuid_draws>>

\* An answer of the files endpoints
FilesAnswer(op, filename, status, body) ==
  [op |-> op, filename |-> filename, status |-> status, body |-> body]

\* GET /files/{filename}
get_generated_file(filename) ==
  /\ loop = "idle"
  /\ files_api' = IF filename \notin DOMAIN temp_files
                  THEN FilesAnswer("GET", filename, 404, <<>>)
                  ELSE FilesAnswer("GET", filename, 200, temp_files[filename])
  /\ UNCHANGED <<streamVars, loop, http, remote_calls, viz, temp_files, uuid_draws>>

\* delete_generated_file that answers without removing the file
delete_generated_file_KeepsFile(filename) ==
  /\ loop = "idle"
  /\ files_api' = FilesAnswer("DELETE", filename,
                              IF filename \in DOMAIN temp_files THEN 200 ELSE 404, <<>>)
  /\ UNCHANGED <<streamVars, loop, http, remote_calls, viz, temp_files, uuid_draws>>

\* DELETE /files/{filename}
delete_generated_file(filename) ==
  /\ loop = "idle"
  /\ IF filename \in DOMAIN temp_files
     THEN /\ temp_files' = Pop(temp_files, filename)
          /\ files_api' = FilesAnswer("DELETE", filename, 200, <<>>)
     ELSE /\ files_api' = FilesAnswer("DELETE", filename, 404, <<>>)
          /\ UNCHANGED temp_files
  /\ UNCHANGED <<streamVars, loop, http, remote_calls, viz, uuid_draws>>

\* ----------------------------------------------------------- specification

Init ==
  /\ active_streams = [k \in {} |-> TRUE]
  /\ loop = "idle"
  /\ relay = [s \in Sessions |-> NoRelay]
  /\ http = [id \in RequestIds |-> NoResponse]
  /\ remote_calls = [id \in RequestIds |-> <<>>]
  /\ viz = [id \in BufferedIds |-> NoViz]
  /\ temp_files = [k \in {} |-> <<>>]
  /\ files_api = FilesAnswer("", <<>>, 0, <<>>)
  /\ uuid_draws = 0

\* The streaming relay: two sessions, stop requests and disconnects
Next ==
  \/ \E s \in Sessions, request \in StreamRequests : analyze_file_stream(s, request)
  \/ \E s \in Sessions : relay_start(s)
  \/ \E s \in Sessions : relay_resume(s)
  \/ \E s \in Sessions : invoke_agent_returns(s)
  \/ \E s \in Sessions : invoke_agent_raises(s)
  \/ \E s \in Sessions, event \in RemoteEvents : completion_next(s, event)
  \/ \E s \in Sessions : completion_exhausted(s)
  \/ \E s \in Sessions : completion_raises(s)
  \/ \E s \in Sessions : client_disconnect(s)
  \/ \E s \in Sessions : stop_stream(s)

Spec == Init /\ [][Next]_vars

\* The request paths: one streaming request, one POST /visualize, one POST
\* /visualize/upload, with every payload; the remote agent fails or answers
\* with an empty event stream
FacadeSessions == {"session_1"}

NextRequests ==
  \/ \E s \in FacadeSessions, request \in FacadeStreamRequests :
       analyze_file_stream(s, request)
  \/ \E s \in FacadeSessions : relay_start(s)
  \/ \E s \in FacadeSessions : relay_resume(s)
  \/ \E s \in FacadeSessions : invoke_agent_returns(s)
  \/ \E s \in FacadeSessions : invoke_agent_raises(s)
  \/ \E s \in FacadeSessions : completion_exhausted(s)
  \/ \E s \in FacadeSessions : completion_raises(s)
  \/ \E s \in FacadeSessions : client_disconnect(s)
  \/ \E id \in VisualizeIds, request \in FacadeVisualizeRequests :
       visualize_data(id, request)
  \/ \E id \in UploadIds, form \in FacadeUploadForms :
       visualize_upload_fallback(id, form)
  \/ \E id \in BufferedIds : visualize_invoke_returns(id)
  \/ \E id \in BufferedIds : visualize_invoke_raises(id)
  \/ \E id \in BufferedIds : drain_exhausted(id)
  \/ \E id \in BufferedIds : drain_raises(id)
  \/ \E id \in BufferedIds : visualize_respond(id)

SpecRequests == Init /\ [][NextRequests]_vars

\* The artifact store: one streaming session and one POST /visualize, both
\* with a payload that is accepted and a remote agent that sends files, and
\* the files endpoints
StoreEvents == {EvFiles, EvRewrite}

StoreFileNames == {<<"a", ".", "c", "s", "v">>}

StoreVisualizeRequests ==
  {request \in FacadeVisualizeRequests :
     request.file_content = Payload(TRUE, 3)}

NextStore ==
  \/ \E s \in FacadeSessions, request \in StreamRequests :
       analyze_file_stream(s, request)
  \/ \E s \in FacadeSessions : relay_start(s)
  \/ \E s \in FacadeSessions : relay_resume(s)
  \/ \E s \in FacadeSessions : invoke_agent_returns(s)
  \/ \E s \in FacadeSessions, event \in StoreEvents : completion_next(s, event)
  \/ \E s \in FacadeSessions : completion_exhausted(s)
  \/ \E id \in VisualizeIds, request \in StoreVisualizeRequests :
       visualize_data(id, request)
  \/ \E id \in VisualizeIds : visualize_invoke_returns(id)
  \/ \E id \in VisualizeIds, event \in StoreEvents : drain_next(id, event)
  \/ \E id \in VisualizeIds : drain_write(id)
  \/ \E id \in VisualizeIds : drain_exhausted(id)
  \/ \E id \in VisualizeIds : drain_raises(id)
  \/ \E id \in VisualizeIds : visualize_respond(id)
  \/ \E filename \in StoreFileNames : get_generated_file(filename)
  \/ \E filename \in StoreFileNames : delete_generated_file(filename)

SpecStore == Init /\ [][NextStore]_vars

\* -------------------------------------------------------------- properties

Frames(s) == relay[s].frames

\* The places of the terminal frames among the frames of session s
Terminals(s) ==
  {i \in 1..Len(Frames(s)) : Frames(s)[i].event \in {"complete", "error"}}

\* The relay of session s has registered and has not run its finally clause
Running(s) ==
  relay[s].pc \in {"y_start", "invoking", "pulling", "y_event", "y_complete", "y_error"}

\* C1: once the relay has seen the cleared flag at its per-event check, it emits
\* no further frame (as claimed; the code goes on to the completion frame).
C1_SilentAfterStop ==
  \A s \in Sessions :
    relay[s].abortedAt >= 0 => Len(Frames(s)) = relay[s].abortedAt

\* C2: however the relay ends, the step that ends it removes the session's id
\* from active_streams, and the finally clause has run exactly once for an
\* ended relay and never for another.
C2_CleanupOnce ==
  [][\A s \in Sessions :
       /\ (relay'[s].pc = "done") <=> (relay'[s].pops = 1)
       /\ relay'[s].pops \in {0, 1}
       /\ (relay[s].pc # "done" /\ relay'[s].pc = "done")
            => s \notin DOMAIN active_streams']_vars

C2_Witness ==
  /\ relay["session_1"].pc = "done" /\ relay["session_1"].closed
  /\ relay["session_2"].pc = "done" /\ relay["session_2"].raised # ""
  /\ \E s \in Sessions : relay[s].abortedAt >= 0

\* C3: an exception raised after the start frame gives exactly one error frame,
\* with the exception's description and the session id; it is the last frame,
\* no complete frame is emitted, and the ended relay has run its cleanup.
C3_ErrorFrame ==
  \A s \in Sessions :
    relay[s].raised # "" =>
      /\ Terminals(s) = {Len(Frames(s))}
      /\ Frames(s)[Len(Frames(s))] = ErrorFrame(s, relay[s].raised)
      /\ Frames(s)[1] = StatusFrame(s, "Starting analysis...")
      /\ relay[s].pc \in {"y_error", "done"}
      /\ relay[s].pc = "done" => relay[s].pops = 1

C3_Witness ==
  \E s \in Sessions :
    /\ relay[s].raised = "TypeError"
    /\ relay[s].pc = "done"
    /\ ~relay[s].closed
    /\ \E i \in 1..Len(Frames(s)) : Frames(s)[i].event = "chart"

\* C4: a session no stop request was serviced for and whose client stays
\* connected emits at most one terminal frame, nothing after it, and has
\* emitted one when its relay has ended.
C4_OneTerminal ==
  \A s \in Sessions :
    (relay[s].stopAt = -1 /\ ~relay[s].closed) =>
      /\ Cardinality(Terminals(s)) <= 1
      /\ Terminals(s) # {} => Terminals(s) = {Len(Frames(s))}
      /\ relay[s].pc = "done" => Terminals(s) # {}

C4_Witness ==
  \E s \in Sessions :
    /\ relay[s].pc = "done" /\ relay[s].stopAt = -1 /\ ~relay[s].closed
    /\ Frames(s)[Len(Frames(s))].event = "complete"
    /\ Len(relay[s].pulled) >= 2

\* A frame, by its kind and what it carries of the event it was made from
Carried(frame) ==
  CASE frame.event = "text" -> [kind |-> "text", payload |-> frame.data.content]
    [] frame.event = "chart" -> [kind |-> "chart", payload |-> frame.data.data]
    [] frame.event = "status" -> [kind |-> "status", payload |-> <<frame.data.message>>]
    [] OTHER -> [kind |-> frame.event, payload |-> <<>>]

\* The frames made from the k-th event pulled, in the order of their emission
RECURSIVE FramesFrom(_, _, _)
FramesFrom(frames, src, k) ==
  IF frames = <<>> THEN <<>>
  ELSE (IF Head(src) = k THEN <<Head(frames)>> ELSE <<>>)
       \o FramesFrom(Tail(frames), Tail(src), k)

\* The entries of chunk['files'] that carry data
RECURSIVE DataFiles(_)
DataFiles(files) ==
  IF files = <<>> THEN <<>>
  ELSE (IF Head(files).hasData THEN <<Head(files)>> ELSE <<>>) \o DataFiles(Tail(files))

\* What an event that is processed to its end is to be relayed as: its text,
\* then its files, then its progress messages
ExpectedOf(event) ==
  LET files == IF event.hasChunk /\ event.hasFiles THEN DataFiles(event.files) ELSE <<>>
  IN  (IF event.hasChunk /\ event.hasBytes
       THEN <<[kind |-> "text", payload |-> Utf8Decode(event.bytes)]>> ELSE <<>>)
      \o [i \in 1..Len(files) |-> [kind |-> "chart", payload |-> B64Encode(files[i].data)]]
      \o (IF event.hasTrace /\ event.hasInner
             /\ "codeInterpreterInvocationInput" \in event.markers
          THEN <<[kind |-> "status", payload |-> <<"Generating charts...">>]>> ELSE <<>>)
      \o (IF event.hasTrace /\ event.hasInner
             /\ "codeInterpreterInvocationOutput" \in event.markers
          THEN <<[kind |-> "status", payload |-> <<"Code execution completed">>]>>
          ELSE <<>>)

IsPrefix(a, b) ==
  /\ Len(a) <= Len(b)
  /\ \A i \in 1..Len(a) : a[i] = b[i]

CarriedFrom(s, k) ==
  LET from == FramesFrom(Frames(s), relay[s].src, k)
  IN  [i \in 1..Len(from) |-> Carried(from[i])]

\* C5: the frames made from events go out in the order the events were pulled;
\* the frames of one event are, in order and once each, its text (the whole
\* delta and nothing else), its files and its progress messages: all of them
\* for an event the relay has gone past, the first of them for its last event.
C5_FramesInOrder ==
  \A s \in Sessions :
    /\ \A i, j \in 1..Len(Frames(s)) :
         (i < j /\ relay[s].src[i] > 0 /\ relay[s].src[j] > 0)
           => relay[s].src[i] <= relay[s].src[j]
    /\ \A k \in 1..Len(relay[s].pulled) :
         /\ IsPrefix(CarriedFrom(s, k), ExpectedOf(relay[s].pulled[k]))
         /\ k < Len(relay[s].pulled)
              => Len(CarriedFrom(s, k)) = Len(ExpectedOf(relay[s].pulled[k]))

C5_Witness ==
  \E s \in Sessions :
    /\ relay[s].pc = "done"
    /\ relay[s].pulled = <<EvText, EvFiles>>
    /\ Len(Frames(s)) = 8

\* C6: every key of active_streams is the id of a relay that has registered
\* and has not run its cleanup (as claimed; stop_stream writes any id).
C6_RegistryOnlyRunning ==
  \A id \in DOMAIN active_streams : id \in Sessions /\ Running(id)

\* C7: no event pulled after a stop request for the session was serviced gets
\* past the liveness check (as claimed; the registration overwrites a stop
\* serviced before it).
C7_StopNotLost ==
  \A s \in Sessions :
    relay[s].stopAt >= 0 => relay[s].checked <= relay[s].stopAt

IsChart(frame) == frame.event = "chart"

\* The chart frames of session s made from its k-th event
ChartsFrom(s, k) ==
  SelectSeq(FramesFrom(Frames(s), relay[s].src, k), IsChart)

PayloadOf(id) ==
  IF id \in Sessions THEN relay[id].payload ELSE viz[id].request.file_content

RequestMade(id) ==
  IF id \in Sessions THEN relay[id].pc # "none" ELSE viz[id].pc # "none"

TooLarge(payload) ==
  payload.wellformed /\ payload.size > MaxFileSizeMb * BytesPerMb

\* C9: on every request path, a payload that decodes to more than the ceiling
\* is rejected and no remote call is made for the request, and no payload of
\* the ceiling's length or less is rejected for its size (as claimed; the
\* streaming path never looks at the size).
C9_CeilingEnforced ==
  \A id \in RequestIds :
    RequestMade(id) =>
      /\ TooLarge(PayloadOf(id))
           => remote_calls[id] = <<>> /\ http[id].status # 200
      /\ http[id].detail = "File too large" => TooLarge(PayloadOf(id))

\* C10: on every endpoint a payload that does not decode, or decodes to more
\* than the ceiling, is answered with a 4xx status and a description, and no
\* remote call is made for the request (as claimed; the handlers that wrap
\* every Exception turn the 400 into a 500).
C10_ClientError ==
  \A id \in RequestIds :
    (RequestMade(id) /\ (~PayloadOf(id).wellformed \/ TooLarge(PayloadOf(id)))) =>
      /\ http[id].status \in 400..499
      /\ http[id].detail # ""
      /\ remote_calls[id] = <<>>

\* C11, as claimed: on POST /visualize a failure of the remote invocation or
\* of the drain of the event sequence is answered with a 5xx status.
C11_FailureIsServerError ==
  \A id \in VisualizeIds :
    (viz[id].error # "" /\ http[id].status # 0) => http[id].status \in 500..599

\* C11, amended: the failure is answered with status 200 and a body that
\* tells it: success is false, the exception's description is carried, no
\* file is listed; and such a body is sent for a failure only.
C11_FailureInBand ==
  \A id \in VisualizeIds :
    /\ (viz[id].error # "" /\ viz[id].pc = "done") =>
         /\ http[id] = HttpResponse(200, "")
         /\ ~viz[id].response.success
         /\ viz[id].response.error = viz[id].error
         /\ viz[id].response.generated_files = <<>>
    /\ (viz[id].pc = "done" /\ http[id].status = 200 /\ viz[id].error = "")
         => viz[id].response.success

C11_Witness ==
  /\ viz["visualize_1"].pc = "done"
  /\ viz["visualize_1"].error = "EventStreamError"
  /\ http["visualize_1"].status = 200
  /\ Len(remote_calls["visualize_1"]) = 1

\* The text the events carry, decoded and concatenated
RECURSIVE TextOf(_)
TextOf(events) ==
  IF events = <<>> THEN <<>>
  ELSE LET event == Head(events)
       IN  (IF event.hasChunk /\ event.hasBytes /\ Utf8Valid(event.bytes)
            THEN Utf8Decode(event.bytes) ELSE <<>>) \o TextOf(Tail(events))

\* The number of files with data the events carry
RECURSIVE FileCountOf(_)
FileCountOf(events) ==
  IF events = <<>> THEN 0
  ELSE LET event == Head(events)
       IN  (IF event.hasChunk /\ event.hasFiles THEN Len(DataFiles(event.files)) ELSE 0)
           + FileCountOf(Tail(events))

\* The events of session s pulled before the first stop request for s was
\* serviced
PulledBeforeStop(s) ==
  SubSeq(relay[s].pulled, 1, relay[s].stopAt)

\* C12: the flag is read once for every event pulled; no frame is made from an
\* event pulled after a stop request was serviced, and such an event adds
\* nothing to the text accumulator or the file counter; the events pulled before
\* it, the one in work when the request arrives included, are relayed whole
\* (as claimed; the registration overwrites a stop serviced before it, and the
\* events pulled afterwards are relayed).
C12_CheckedOncePerEvent ==
  \A s \in Sessions :
    /\ relay[s].checked + (IF relay[s].abortedAt >= 0 THEN 1 ELSE 0)
         = Len(relay[s].pulled)
    /\ relay[s].stopAt >= 0 =>
         /\ \A i \in 1..Len(Frames(s)) : relay[s].src[i] <= relay[s].stopAt
         /\ Len(relay[s].text_buffer) <= Len(TextOf(PulledBeforeStop(s)))
         /\ relay[s].file_counter <= FileCountOf(PulledBeforeStop(s))
         /\ \A k \in 1..relay[s].stopAt :
              k < Len(relay[s].pulled)
                => CarriedFrom(s, k) = ExpectedOf(relay[s].pulled[k])

\* ---------------------------------------------------- the use-case classifier

\* File names: a tabular-data one, a document, another extension, none, and a
\* tabular-data one in capitals
ClassifyFileNames ==
  { <<"s", "a", "l", "e", "s", ".", "x", "l", "s", "x">>,
    <<"r", "e", "p", "o", "r", "t", ".", "p", "d", "f">>,
    <<"p", "h", "o", "t", "o", ".", "p", "n", "g">>,
    <<"n", "o", "t", "e", "s">>,
    <<"D", "A", "T", "A", ".", "C", "S", "V">> }

\* Prompts: a visualization keyword, a text-processing keyword, both, neither,
\* and a visualization keyword in capitals
ClassifyPrompts ==
  { <<"c", "h", "a", "r", "t", " ", "i", "t">>,
    <<"r", "e", "a", "d", " ", "i", "t">>,
    <<"s", "u", "m", "m", "a", "r", "i", "z", "e", " ", "a", "n", "d", " ", "v", "i", "s", "u", "a", "l", "i", "z", "e">>,
    <<"h", "e", "l", "l", "o">>,
    <<"P", "L", "O", "T">> }

ClassifyRequests ==
  { FileVisualizationRequest(prompt, file_name, Payload(TRUE, 3), "text/csv", "",
                             "comprehensive", <<"a", "u", "t", "o">>, <<>>) :
      prompt \in ClassifyPrompts, file_name \in ClassifyFileNames }

\* The classifier at work: one POST /visualize with use_case "auto", for every
\* file name and prompt
NextClassify ==
  \/ \E id \in VisualizeIds, request \in ClassifyRequests : visualize_data(id, request)
  \/ \E id \in VisualizeIds : visualize_invoke_returns(id)
  \/ \E id \in VisualizeIds : visualize_invoke_raises(id)
  \/ \E id \in VisualizeIds : drain_exhausted(id)
  \/ \E id \in VisualizeIds : drain_raises(id)
  \/ \E id \in VisualizeIds : visualize_respond(id)

SpecClassify == Init /\ [][NextClassify]_vars

\* The labels of a list of use cases
LabelSet(use_cases) ==
  {use_cases[i] : i \in 1..Len(use_cases)}

\* The file name ends, in any case of letters, with one of the extensions
HasExtension(file_name, extensions) ==
  \E extension \in extensions : EndsWith(Lower(file_name), extension)

\* The prompt contains, in any case of letters, one of the keywords
HasKeyword(prompt, keywords) ==
  \E keyword \in keywords : Contains(Lower(prompt), keyword)

\* A POST /visualize that was classified: accepted, with use_case "auto"
Classified(id) ==
  /\ viz[id].pc \notin {"none"}
  /\ viz[id].session_id # ""
  /\ viz[id].request.use_case = <<"a", "u", "t", "o">>

\* C13, as claimed: a tabular-data file with a prompt that holds both a
\* visualization and a text-processing keyword gets both labels (the code
\* never reaches the branch that returns both).
C13_BothLabels ==
  \A id \in VisualizeIds :
    (/\ Classified(id)
     /\ HasExtension(viz[id].request.file_name, SUPPORTED_DATA_FILES)
     /\ HasKeyword(viz[id].request.prompt, viz_keywords)
     /\ HasKeyword(viz[id].request.prompt, text_keywords))
      => LabelSet(viz[id].use_cases) = {CHAT, CODE_INTERPRETER}

C15_TextKeywordChatOnly ==
  \A id \in VisualizeIds :
    Classified(id) =>
      /\ (/\ HasKeyword(viz[id].request.prompt, text_keywords)
          /\ ~HasKeyword(viz[id].request.prompt, viz_keywords))
           => LabelSet(viz[id].use_cases) = {CHAT}
      /\ LabelSet(viz[id].use_cases) # {}
      /\ LabelSet(viz[id].use_cases) \subseteq {CHAT, CODE_INTERPRETER}

C15_Witness ==
  /\ Classified("visualize_1")
  /\ viz["visualize_1"].request.file_name
       = <<"s", "a", "l", "e", "s", ".", "x", "l", "s", "x">>
  /\ viz["visualize_1"].request.prompt = <<"r", "e", "a", "d", " ", "i", "t">>
  /\ viz["visualize_1"].use_cases = <<CHAT>>

\* The contents of the text frames among the frames, concatenated in order
RECURSIVE TextOfFrames(_)
TextOfFrames(frames) ==
  IF frames = <<>> THEN <<>>
  ELSE (IF Head(frames).event = "text" THEN Head(frames).data.content ELSE <<>>)
       \o TextOfFrames(Tail(frames))

\* C16: a complete frame carries, as total_files, the number of chart frames
\* of its session and, as total_text_length, the length of the contents of the
\* session's text frames put together in the order of their emission.
C16_CompleteTotals ==
  \A s \in Sessions : \A i \in 1..Len(Frames(s)) :
    Frames(s)[i].event = "complete" =>
      /\ Frames(s)[i].data.total_files = Len(SelectSeq(Frames(s), IsChart))
      /\ Frames(s)[i].data.total_text_length = Len(TextOfFrames(Frames(s)))
      /\ Frames(s)[i].data.session_id = s

C16_Witness ==
  \E s \in Sessions :
    /\ relay[s].pulled = <<EvText, EvFiles>>
    /\ Frames(s)[Len(Frames(s))].event = "complete"
    /\ Frames(s)[Len(Frames(s))].data.total_files = 2
    /\ Frames(s)[Len(Frames(s))].data.total_text_length = 4
    /\ relay[s].abortedAt = -1

\* The entry of name k is the same in both stores: absent, or the same bytes
SameEntry(k, before, after) ==
  /\ k \in DOMAIN before <=> k \in DOMAIN after
  /\ k \in DOMAIN before => after[k] = before[k]

C18_NoPartialRead ==
  (files_api.op = "GET" /\ files_api.status = 200)
    => \E event \in StoreEvents : \E i \in 1..Len(event.files) :
         /\ event.files[i].hasData
         /\ files_api.body = event.files[i].data

\* The step that ends the relay of session a: its finally clause
RelayEnds(a) ==
  relay[a].pc # "done" /\ relay'[a].pc = "done"

\* C19: a stop request for session a, the registration of a's relay and its
\* cleanup leave the registry entry of every other session b, and b's relay
\* with its frames, as they are; and a relay aborts at its liveness check only
\* when a stop request for its own id was serviced.
C19_SessionsIndependent ==
  [][/\ \A a \in Sessions :
          (stop_stream(a) \/ relay_start(a) \/ RelayEnds(a)) =>
            \A b \in Sessions \ {a} :
              /\ SameEntry(b, active_streams, active_streams')
              /\ relay'[b] = relay[b]
     /\ \A b \in Sessions :
          relay'[b].abortedAt >= 0 => relay'[b].stopAt >= 0]_vars

C19_Witness ==
  /\ relay["session_1"].abortedAt >= 0
  /\ Len(relay["session_1"].pulled) = 1
  /\ relay["session_2"].pc = "done"
  /\ relay["session_2"].stopAt = -1
  /\ relay["session_2"].checked = 1
  /\ ~relay["session_2"].closed
  /\ Frames("session_2")[Len(Frames("session_2"))].event = "complete"
  /\ Len(Frames("session_2")) > 2

\* endpoint.py health_check: it reads the registry and changes nothing, so its
\* answer is a function of the state
health_check ==
  [status |-> "healthy", active_streams |-> Cardinality(DOMAIN active_streams)]

\* The sessions whose relay is running and whose flag is true
LiveSessions ==
  {s \in Sessions : Running(s) /\ Get(active_streams, s, FALSE)}

\* C20: the count GET /health answers with is the number of live sessions (as
\* claimed; the count is the number of registry entries, stopped ones and ids
\* without a relay included).
C20_HealthCountsLive ==
  health_check.active_streams = Cardinality(LiveSessions)

\* ------------------------------------------------- the relay, scheduled fairly

\* The events of the fair runs: a text delta, and files the second of which
\* cannot be encoded
LiveEvents == {EvText, EvBadFile}

\* The streaming relay with clients that stay connected
NextLive ==
  \/ \E s \in Sessions, request \in StreamRequests : analyze_file_stream(s, request)
  \/ \E s \in Sessions : relay_start(s)
  \/ \E s \in Sessions : relay_resume(s)
  \/ \E s \in Sessions : invoke_agent_returns(s)
  \/ \E s \in Sessions : invoke_agent_raises(s)
  \/ \E s \in Sessions, event \in LiveEvents : completion_next(s, event)
  \/ \E s \in Sessions : completion_exhausted(s)
  \/ \E s \in Sessions : completion_raises(s)
  \/ \E s \in Sessions : stop_stream(s)

\* The consumer keeps asking the generator for its next frame; the remote
\* agent answers every call, and its event stream delivers an event, ends or
\* fails.
SpecLive ==
  /\ Init
  /\ [][NextLive]_vars
  /\ \A s \in Sessions :
       /\ WF_vars(relay_start(s))
       /\ WF_vars(relay_resume(s))
       /\ WF_vars(invoke_agent_returns(s) \/ invoke_agent_raises(s))
       /\ WF_vars(\/ \E event \in LiveEvents : completion_next(s, event)
                  \/ completion_exhausted(s)
                  \/ completion_raises(s))

\* C21: a session that has emitted its start frame comes to an end: it has
\* emitted a terminal frame, its finally clause has run, and its registry
\* entry is removed, whatever stop requests arrive.
C21_EventuallyCleanedUp ==
  \A s \in Sessions :
    (relay[s].pc = "y_start")
      ~> (/\ relay[s].pc = "done"
          /\ relay[s].pops = 1
          /\ Terminals(s) # {}
          /\ s \notin DOMAIN active_streams)

C21_Witness ==
  /\ relay["session_1"].pc = "done" /\ relay["session_1"].abortedAt >= 0
  /\ relay["session_2"].pc = "done" /\ relay["session_2"].raised = "TypeError"
  /\ DOMAIN active_streams = {}

\* The relay of session s waits for the remote agent: for the answer to
\* invoke_agent, or for the next event of the response
WaitsForRemote(s) ==
  relay[s].pc \in {"invoking", "pulling"}

\* C22: while a relay waits for the remote agent, a stop request can be
\* serviced and the relay of another session that is suspended at a yield can
\* be resumed (as claimed; the calls are synchronous and keep the event loop).
C22_RemoteWaitSuspends ==
  \A s \in Sessions :
    WaitsForRemote(s) =>
      /\ ENABLED stop_stream(s)
      /\ \A t \in Sessions \ {s} :
           relay[t].pc \in YieldPcs => ENABLED relay_resume(t)

\* The file payloads with data the events carry, in order
RECURSIVE AllDataFiles(_)
AllDataFiles(events) ==
  IF events = <<>> THEN <<>>
  ELSE LET event == Head(events)
       IN  (IF event.hasChunk /\ event.hasFiles THEN DataFiles(event.files) ELSE <<>>)
           \o AllDataFiles(Tail(events))

\* The relay of session s has relayed its whole event stream: no stop
\* request, no exception, no disconnect
RelayedWhole(s) ==
  /\ relay[s].pc = "done"
  /\ relay[s].raised = ""
  /\ relay[s].stopAt = -1
  /\ ~relay[s].closed

\* The buffered request id has drained its whole event stream and answered
DrainedWhole(id) ==
  /\ viz[id].pc = "done"
  /\ viz[id].error = ""
  /\ http[id].status = 200

\* C23: for the same event sequence relayed whole by a streaming session and
\* drained whole by a buffered request, the text of the buffered answer is the
\* contents of the text frames put together in order, and the files of the
\* answer are as many as the chart frames, with the same sizes in the same
\* order, and the same name where the payload has a name.
C23_SameClassification ==
  \A s \in Sessions : \A id \in VisualizeIds :
    (RelayedWhole(s) /\ DrainedWhole(id) /\ viz[id].drained = relay[s].pulled) =>
      LET charts == SelectSeq(Frames(s), IsChart)
          files == viz[id].response.generated_files
          payloads == AllDataFiles(relay[s].pulled)
      IN  /\ viz[id].response.response_text = TextOfFrames(Frames(s))
          /\ Len(files) = Len(charts)
          /\ Len(payloads) = Len(charts)
          /\ \A i \in 1..Len(charts) :
               /\ files[i].size_bytes = charts[i].data.size
               /\ payloads[i].hasName =>
                    /\ files[i].name = payloads[i].name
                    /\ charts[i].data.filename = payloads[i].name

C23_Witness ==
  /\ RelayedWhole("session_1")
  /\ DrainedWhole("visualize_1")
  /\ relay["session_1"].pulled = <<EvFiles, EvRewrite>>
  /\ viz["visualize_1"].drained = <<EvFiles, EvRewrite>>
  /\ Len(viz["visualize_1"].response.generated_files) = 3

\* ------------------------------------------------- the relay's trace events

\* The events of a session whose agent runs the code interpreter
TraceEvents ==
  {NoEvent, EvText, EvFiles, EvOtherTrace, EvTraceInput, EvTraceOutput, EvTraceOuter}

\* One streaming session over the trace events, with stop requests and
\* disconnects
NextTrace ==
  \/ \E s \in FacadeSessions, request \in StreamRequests :
       analyze_file_stream(s, request)
  \/ \E s \in FacadeSessions : relay_start(s)
  \/ \E s \in FacadeSessions : relay_resume(s)
  \/ \E s \in FacadeSessions : invoke_agent_returns(s)
  \/ \E s \in FacadeSessions : invoke_agent_raises(s)
  \/ \E s \in FacadeSessions, event \in TraceEvents : completion_next(s, event)
  \/ \E s \in FacadeSessions : completion_exhausted(s)
  \/ \E s \in FacadeSessions : completion_raises(s)
  \/ \E s \in FacadeSessions : client_disconnect(s)
  \/ \E s \in FacadeSessions : stop_stream(s)

SpecTrace == Init /\ [][NextTrace]_vars

IsStatus(frame) == frame.event = "status"

\* The loop body has run to its end for the k-th event of session s
BodyDone(s, k) ==
  /\ k <= relay[s].checked
  /\ \/ k < Len(relay[s].pulled)
     \/ relay[s].pc = "pulling"
     \/ /\ Frames(s) # <<>>
        /\ Frames(s)[Len(Frames(s))].event = "complete"

\* The progress messages the markers of an event call for
MarkerMessages(event) ==
  (IF event.hasTrace /\ event.hasInner
      /\ "codeInterpreterInvocationInput" \in event.markers
   THEN <<"Generating charts...">> ELSE <<>>)
  \o (IF event.hasTrace /\ event.hasInner
         /\ "codeInterpreterInvocationOutput" \in event.markers
      THEN <<"Code execution completed">> ELSE <<>>)

\* The messages of the status frames the k-th event of session s gave
StatusMessages(s, k) ==
  LET status == SelectSeq(FramesFrom(Frames(s), relay[s].src, k), IsStatus)
  IN  [i \in 1..Len(status) |-> status[i].data.message]

\* An event that has neither a chunk nor a trace with a marker
Silent(event) ==
  /\ ~event.hasChunk
  /\ ~(event.hasTrace /\ event.hasInner /\ event.markers # {})

\* C24: for every event the loop body has run through, the status frames of
\* the event are 'Generating charts...' exactly when the trace has the input
\* marker and 'Code execution completed' exactly when it has the output
\* marker, input first; and the step that takes an event with neither chunk
\* nor marker emits no frame, raises nothing and leaves the text accumulator,
\* the file counter and the registry as they were.
C24_TraceFrames ==
  /\ [](\A s \in Sessions : \A k \in 1..Len(relay[s].pulled) :
          BodyDone(s, k) =>
            /\ StatusMessages(s, k) = MarkerMessages(relay[s].pulled[k])
            /\ \A i \in 1..Len(Frames(s)) :
                 IsStatus(Frames(s)[i]) => Frames(s)[i].data.session_id = s)
  /\ [][\A s \in Sessions :
          (/\ relay[s].pc = "pulling"
           /\ Len(relay'[s].pulled) = Len(relay[s].pulled) + 1
           /\ relay'[s].checked = relay[s].checked + 1
           /\ Silent(relay'[s].pulled[Len(relay'[s].pulled)]))
          => /\ relay'[s].frames = relay[s].frames
             /\ relay'[s].raised = relay[s].raised
             /\ relay'[s].pc = "pulling"
             /\ relay'[s].text_buffer = relay[s].text_buffer
             /\ relay'[s].file_counter = relay[s].file_counter
             /\ active_streams' = active_streams]_vars

C24_Witness ==
  /\ relay["session_1"].pulled = <<EvFiles, EvTraceOuter>>
  /\ relay["session_1"].checked = 2
  /\ Len(Frames("session_1")) = 7
  /\ Frames("session_1")[5].data.message = "Generating charts..."
  /\ Frames("session_1")[6].data.message = "Code execution completed"
  /\ Frames("session_1")[7].event = "complete"

\* The name the relay synthesizes for the k-th data-carrying payload
ChartName(k) ==
  <<"c", "h", "a", "r", "t", "_">> \o IntToStr(k) \o <<".", "p", "n", "g">>

\* C25: in a streaming session the i-th chart frame is the frame of the i-th
\* file payload with data: its size is the byte length of the payload and its
\* name is the payload's name, or chart_<i>.png without one, so that no two
\* synthesized names are equal; entries without data give no frame; and the
\* file counter is the number of payloads with data the relay has taken.
C25_FileCounter ==
  \A s \in Sessions :
    LET charts == SelectSeq(Frames(s), IsChart)
        payloads == AllDataFiles(relay[s].pulled)
    IN  /\ Len(charts) <= Len(payloads)
        /\ relay[s].file_counter
             = Len(charts) + (IF relay[s].raised = "TypeError" THEN 1 ELSE 0)
        /\ \A i \in 1..Len(charts) :
             /\ charts[i].data.size = Len(payloads[i].data)
             /\ charts[i].data.filename
                  = IF payloads[i].hasName THEN payloads[i].name ELSE ChartName(i)
        /\ \A i, j \in 1..Len(charts) :
             (i # j /\ ~payloads[i].hasName /\ ~payloads[j].hasName)
               => charts[i].data.filename # charts[j].data.filename

C25_Witness ==
  LET charts == SelectSeq(Frames("session_1"), IsChart)
  IN  /\ relay["session_1"].pulled = <<EvFiles, EvBadFile>>
      /\ relay["session_1"].file_counter = 4
      /\ Len(charts) = 3
      /\ charts[2].data.filename = <<"c", "h", "a", "r", "t", "_", "2", ".", "p", "n", "g">>
      /\ charts[3].data.filename = <<"c", "h", "a", "r", "t", "_", "3", ".", "p", "n", "g">>

\* C26: the first frame of every streaming session is the start status frame
\* with the session id; the session is registered as live in the state in
\* which that frame is out; the remote agent is called only after it; and a
\* session whose invocation raised has exactly the frames status, error.
C26_StartFrameFirst ==
  /\ [](\A s \in Sessions :
          /\ Frames(s) # <<>> =>
               Frames(s)[1] = [event |-> "status",
                               data |-> [message |-> "Starting analysis...",
                                         session_id |-> s]]
          /\ remote_calls[s] # <<>> => Len(Frames(s)) >= 1
          /\ relay[s].pc = "invoking" => Len(Frames(s)) = 1
          /\ relay[s].raised = "ClientError" =>
               /\ Len(Frames(s)) = 2
               /\ Frames(s)[2].event = "error"
               /\ Frames(s)[2].data.session_id = s)
  /\ [][\A s \in Sessions :
          (Frames(s) = <<>> /\ relay'[s].frames # <<>>) =>
            /\ Len(relay'[s].frames) = 1
            /\ s \in DOMAIN active_streams'
            /\ Get(active_streams', s, FALSE)
            /\ remote_calls'[s] = <<>>]_vars

C26_Witness ==
  /\ relay["session_1"].raised = "ClientError"
  /\ relay["session_1"].pc = "done"
  /\ Len(Frames("session_1")) = 2
  /\ Len(remote_calls["session_1"]) = 1

\* ------------------------------------------- the descriptors sent to the agent

\* File names: tabular data, a document, an image
DescriptorFileNames ==
  { <<"d", "a", "t", "a", ".", "c", "s", "v">>,
    <<"r", "e", "p", "o", "r", "t", ".", "p", "d", "f">>,
    <<"p", "h", "o", "t", "o", ".", "p", "n", "g">> }

\* Prompts: a visualization keyword, a text-processing keyword, neither
DescriptorPrompts ==
  { <<"c", "h", "a", "r", "t", " ", "i", "t">>,
    <<"r", "e", "a", "d", " ", "i", "t">>,
    <<"h", "e", "l", "l", "o">> }

\* file_type is a required string of both request models; "" is a string
DescriptorFileTypes == {"text/csv", ""}

\* use_case is a free string: the four documented values, and two others
DescriptorUseCases ==
  { <<"a", "u", "t", "o">>,
    <<"c", "h", "a", "t">>,
    <<"c", "o", "d", "e", "_", "i", "n", "t", "e", "r", "p", "r", "e", "t", "e", "r">>,
    <<"b", "o", "t", "h">>,
    <<"B", "o", "t", "h">>,
    <<"n", "o", "n", "e">> }

DescriptorStreamRequests ==
  { FileAnalysisRequest(Payload(TRUE, 3), file_name, file_type, prompt) :
      file_name \in DescriptorFileNames, file_type \in DescriptorFileTypes,
      prompt \in DescriptorPrompts }

DescriptorVisualizeRequests ==
  { FileVisualizationRequest(prompt, file_name, Payload(TRUE, 3), file_type, "",
                             "comprehensive", use_case, <<>>) :
      prompt \in DescriptorPrompts, file_name \in DescriptorFileNames,
      file_type \in DescriptorFileTypes, use_case \in DescriptorUseCases }

\* One streaming session and one POST /visualize, each up to the answer of its
\* invoke_agent call
NextDescriptors ==
  \/ \E s \in FacadeSessions, request \in DescriptorStreamRequests :
       analyze_file_stream(s, request)
  \/ \E s \in FacadeSessions : relay_start(s)
  \/ \E s \in FacadeSessions : relay_resume(s)
  \/ \E s \in FacadeSessions : invoke_agent_raises(s)
  \/ \E id \in VisualizeIds, request \in DescriptorVisualizeRequests :
       visualize_data(id, request)
  \/ \E id \in VisualizeIds : visualize_invoke_raises(id)
  \/ \E id \in VisualizeIds : visualize_respond(id)

SpecDescriptors == Init /\ [][NextDescriptors]_vars

\* The file descriptors of the invoke_agent calls made for request id
RECURSIVE DescriptorsOf(_)
DescriptorsOf(calls) ==
  IF calls = <<>> THEN <<>>
  ELSE Head(calls).files \o DescriptorsOf(Tail(calls))

\* C27: the invoke_agent call of a buffered request carries one descriptor
\* for each label of its use-case set: the tags are the labels, pairwise
\* distinct, the descriptors have the name, the bytes and the media type in
\* common, and the set {CHAT, CODE_INTERPRETER} gives two descriptors.
C27_OneDescriptorPerLabel ==
  \A id \in VisualizeIds : \A c \in 1..Len(remote_calls[id]) :
    LET files == remote_calls[id][c].files
        labels == LabelSet(viz[id].use_cases)
    IN  /\ Len(files) = Cardinality(labels)
        /\ {files[i].useCase : i \in 1..Len(files)} = labels
        /\ \A i, j \in 1..Len(files) :
             /\ i # j => files[i].useCase # files[j].useCase
             /\ files[i].name = files[j].name
             /\ files[i].data = files[j].data
             /\ files[i].mediaType = files[j].mediaType
        /\ \A i \in 1..Len(files) :
             /\ files[i].name = viz[id].request.file_name
             /\ files[i].data = viz[id].file_data
        /\ labels = {CHAT, CODE_INTERPRETER} => Len(files) = 2

C27_Witness ==
  /\ Len(remote_calls["visualize_1"]) = 1
  /\ Len(remote_calls["visualize_1"][1].files) = 2
  /\ viz["visualize_1"].request.use_case = <<"a", "u", "t", "o">>
  /\ viz["visualize_1"].pc = "done"

\* The file_type of the request that was made with id ("" without one)
SuppliedType(id) ==
  IF id \in Sessions THEN relay[id].request.file_type
  ELSE viz[id].request.file_type

\* C28, as claimed: the media type of every descriptor sent to the agent is
\* what the fallback chain of get_mime_type gives for the file name and the
\* caller's type, and is never empty (the code sends request.file_type as it
\* is; get_mime_type is never called).
C28_MediaTypeResolved ==
  \A id \in Sessions \cup VisualizeIds :
    LET files == DescriptorsOf(remote_calls[id])
    IN  \A i \in 1..Len(files) :
          /\ files[i].mediaType = get_mime_type(files[i].name, SuppliedType(id))
          /\ files[i].mediaType # ""

\* C29, as claimed: every descriptor sent to the agent, by the buffered and by
\* the streaming path, has a use-case tag of the set {CHAT, CODE_INTERPRETER}
\* (the buffered path sends any other use_case string in capitals).
C29_UseCaseTagInSet ==
  \A id \in Sessions \cup VisualizeIds :
    LET files == DescriptorsOf(remote_calls[id])
    IN  \A i \in 1..Len(files) : files[i].useCase \in {CHAT, CODE_INTERPRETER}

\* C30, as claimed: when a streaming session and a POST /visualize with
\* use_case "auto" were made for the same file name and prompt, the label the
\* streaming classifier sent is one of the labels the buffered classifier
\* gave (the two functions test different keyword lists and extensions).
C30_ClassifiersAgree ==
  \A s \in Sessions : \A id \in VisualizeIds :
    (/\ remote_calls[s] # <<>>
     /\ remote_calls[id] # <<>>
     /\ viz[id].request.use_case = <<"a", "u", "t", "o">>
     /\ relay[s].request.file_name = viz[id].request.file_name
     /\ relay[s].request.prompt = viz[id].request.prompt)
    => remote_calls[s][1].files[1].useCase \in LabelSet(viz[id].use_cases)

\* C31, as claimed: when a POST /visualize has answered success=false because
\* the event stream raised in the drain thread after file payloads had been
\* written, none of the files written for the request is in the store (the
\* except clause answers with an empty file list and removes nothing).
C31_FailedRequestLeavesNoFile ==
  \A id \in VisualizeIds :
    (/\ viz[id].pc = "done"
     /\ viz[id].error = "EventStreamError"
     /\ ~viz[id].response.success
     /\ viz[id].response.generated_files = <<>>
     /\ viz[id].generated_files # <<>>)
    => \A i \in 1..Len(viz[id].generated_files) :
         viz[id].generated_files[i].name \notin DOMAIN temp_files

====
